---- MODULE Spec2Model ----
(***************************************************************************)
(* EPUB-to-text service: the upload endpoint (main.py) and the extraction  *)
(* pipeline (epub_processor.py) as a state machine.                        *)
(*                                                                         *)
(* A Python str is a sequence of one-character strings, so that joining,   *)
(* lower-casing and suffix tests are computed and not assumed.  The        *)
(* external collaborators (the EPUB parser, the tag stripper, the ZIP      *)
(* reader, the image decoder, the OCR engine, the file system) are         *)
(* modelled by their outcome, which is part of the uploaded input.         *)
(***************************************************************************)
EXTENDS Integers, Sequences, FiniteSets, TLC

(***************************************************************************)
(* Bounds of the model.                                                    *)
(***************************************************************************)
\* Number of upload requests that may be in flight on the one processor.
NumRequests == 2
\* Longest entry listing enumerated for the classifier family of inputs.
MaxNames == 2
\* Longest run of image entries enumerated for the pipeline family.
MaxImages == 3
\* Longest item list enumerated for the markup family.
MaxItems == 2
\* Most image entries over the uploads of the requests served together.
MaxJobs == 7

Requests == 1..NumRequests

(***************************************************************************)
(* Python strings.                                                         *)
(***************************************************************************)
NL == "\n"
EMPTY == <<>>
\* The separator "\n\n" of the three joins.
SEP == <<NL, NL>>
\* The separator " " of the join in _run_ocr.
SPACE == <<" ">>

RECURSIVE join(_, _)
\* sep.join(parts)
join(sep, parts) ==
  IF Len(parts) = 0 THEN EMPTY
  ELSE IF Len(parts) = 1 THEN parts[1]
  ELSE parts[1] \o sep \o join(sep, Tail(parts))

\* The lower-case letter of each upper-case ASCII letter.
LOWER ==
  [A |-> "a", B |-> "b", C |-> "c", D |-> "d", E |-> "e", F |-> "f", G |-> "g",
   H |-> "h", I |-> "i", J |-> "j", K |-> "k", L |-> "l", M |-> "m", N |-> "n",
   O |-> "o", P |-> "p", Q |-> "q", R |-> "r", S |-> "s", T |-> "t", U |-> "u",
   V |-> "v", W |-> "w", X |-> "x", Y |-> "y", Z |-> "z"]

\* str.lower() on one character: other characters are left as they are.
lower_char(c) == IF c \in DOMAIN LOWER THEN LOWER[c] ELSE c

\* str.lower()
lower(s) == [i \in 1..Len(s) |-> lower_char(s[i])]

\* s.endswith(suffix)
endswith(s, suffix) ==
  /\ Len(s) >= Len(suffix)
  /\ SubSeq(s, Len(s) - Len(suffix) + 1, Len(s)) = suffix

\* s.endswith(tuple_of_suffixes)
endswith_any(s, suffixes) == \E k \in 1..Len(suffixes) : endswith(s, suffixes[k])

\* Number of occurrences of "\n\n" in s, counted as s.split("\n\n") does
\* (left to right, non-overlapping).
RECURSIVE count_sep(_)
count_sep(s) ==
  IF Len(s) < 2 THEN 0
  ELSE IF SubSeq(s, 1, 2) = SEP THEN 1 + count_sep(SubSeq(s, 3, Len(s)))
  ELSE count_sep(Tail(s))

\* len(s.split("\n\n")) for a non-empty s; 0 for the empty string, which has
\* no segment.
segments(s) == IF s = EMPTY THEN 0 ELSE count_sep(s) + 1

(***************************************************************************)
(* Python values of the loosely typed OCR engine result.                   *)
(***************************************************************************)
PyNone == [t |-> "None"]
PyList(xs) == [t |-> "list", v |-> xs]
PyStr(s) == [t |-> "str", v |-> s]
PyNum == [t |-> "num"]

\* bool(v): None, an empty list and an empty str are false.
truthy(v) ==
  CASE v.t = "None" -> FALSE
    [] v.t = "list" -> Len(v.v) > 0
    [] v.t = "str" -> Len(v.v) > 0
    [] OTHER -> TRUE

\* len(v) is defined for lists and strs only.
has_len(v) == v.t \in {"list", "str"}

\* v[k] (k counted from 0) raises unless v is a list or str holding it.
can_index(v, k) == has_len(v) /\ Len(v.v) > k

\* v[k], k from 0; indexing a str gives the one-character str.
index(v, k) == IF v.t = "str" THEN PyStr(<<v.v[k + 1]>>) ELSE v.v[k + 1]

(***************************************************************************)
(* OCR Worker: EPUBProcessor._run_ocr (epub_processor.py 112-134).         *)
(***************************************************************************)
\* What a call returns or raises: the outcome of an external collaborator.
Returned(v) == [raised |-> FALSE, value |-> v]
Raised == [raised |-> TRUE, value |-> PyNone]

\* self.ocr.ocr(img_array, cls=True): the engine's answer for this image is
\* part of the input; an array that is not three-channel RGB is refused.
ocr(image) == IF image.mode # "RGB" THEN Raised ELSE image.engine

\* "if line and len(line) > 1" is false: the line is passed over.
line_skipped(line) == ~truthy(line) \/ (has_len(line) /\ Len(line.v) <= 1)

\* len(line) or line[1][0] raises (TypeError, IndexError).
line_raises(line) ==
  /\ ~line_skipped(line)
  /\ \/ ~has_len(line)
     \/ ~can_index(index(line, 1), 0)

\* line[1][0]
line_text(line) == index(index(line, 1), 0)

\* The loop of lines 125-130 over result[0]; any exception ends in line 134.
text_of_lines(group) ==
  LET lines == [k \in 1..Len(group.v) |-> index(group, k - 1)]
      kept == SelectSeq(lines, LAMBDA l : ~line_skipped(l))
      text_parts == [k \in 1..Len(kept) |-> line_text(kept[k])]
  IN  IF \E k \in 1..Len(kept) : line_raises(kept[k]) THEN EMPTY
      ELSE IF \E k \in 1..Len(kept) : text_parts[k].t # "str" THEN EMPTY
      ELSE join(SPACE, [k \in 1..Len(kept) |-> text_parts[k].v])

\* Faulty variant of _run_ocr: a result without text is reported as a mark.
_run_ocr_marks_failure(image) ==
  LET r == ocr(image)
  IN  IF \/ r.raised
         \/ ~truthy(r.value)
         \/ ~can_index(r.value, 0)
         \/ ~truthy(index(r.value, 0))
         \/ ~has_len(index(r.value, 0))
        THEN <<"?">>
        ELSE text_of_lines(index(r.value, 0))

\* Lines 114-134: any exception, and a result that is empty or whose first
\* group is empty, gives "".
_run_ocr(image) ==
  LET r == ocr(image)
  IN  IF r.raised THEN EMPTY
      ELSE IF ~truthy(r.value) THEN EMPTY
      ELSE IF ~can_index(r.value, 0) THEN EMPTY
      ELSE IF ~truthy(index(r.value, 0)) THEN EMPTY
      ELSE IF ~has_len(index(r.value, 0)) THEN EMPTY
      ELSE text_of_lines(index(r.value, 0))

(***************************************************************************)
(* Image Classifier and the archive as a raw ZIP container.                *)
(***************************************************************************)
DOT_PNG == <<".", "p", "n", "g">>
DOT_JPG == <<".", "j", "p", "g">>
DOT_JPEG == <<".", "j", "p", "e", "g">>
DOT_GIF == <<".", "g", "i", "f">>
DOT_BMP == <<".", "b", "m", "p">>
\* The tuple of line 64.
IMAGE_SUFFIXES == <<DOT_PNG, DOT_JPG, DOT_JPEG, DOT_GIF, DOT_BMP>>

\* zip_file.namelist(): the entry names in archive order.
namelist(entries) == [k \in 1..Len(entries) |-> entries[k].name]

\* Faulty variant of image_files_of: the name is not lower-cased.
image_files_case_sensitive(names) ==
  SelectSeq(names, LAMBDA f : endswith_any(f, IMAGE_SUFFIXES))

\* The comprehension of lines 63-64.
image_files_of(names) ==
  SelectSeq(names, LAMBDA f : endswith_any(lower(f), IMAGE_SUFFIXES))

\* zip_file.read(name): the last entry of that name (ZipFile.NameToInfo);
\* raises for a missing name or an entry whose data cannot be read.
zip_read(entries, name) ==
  LET at == {k \in 1..Len(entries) : entries[k].name = name}
  IN  IF at = {} THEN Raised
      ELSE LET e == entries[CHOOSE k \in at : \A j \in at : j <= k]
           IN  IF e.data = "unreadable" THEN Raised ELSE Returned(e)

\* Image.open(io.BytesIO(image_data)): raises unless the bytes are an image.
image_open(e) ==
  IF e.data # "image" THEN Raised
  ELSE Returned([mode |-> e.mode, engine |-> e.engine])

\* Faulty variant of to_rgb: the image is handed over in the mode it has.
to_rgb_skipped(image) == image

\* Lines 95-96.
to_rgb(image) == IF image.mode # "RGB" THEN [image EXCEPT !.mode = "RGB"] ELSE image

NoImage == [mode |-> "none", engine |-> Raised]

\* Lines 91-96 of _process_image_from_zip, up to the hand-over to the pool:
\* raised when the read or the decode raises, else the image to recognise.
prepare_image(entries, name) ==
  LET rd == zip_read(entries, name)
  IN  IF rd.raised THEN [raised |-> TRUE, value |-> NoImage]
      ELSE LET im == image_open(rd.value)
           IN  IF im.raised THEN [raised |-> TRUE, value |-> NoImage]
               ELSE Returned(to_rgb(im.value))

\* Faulty variant of kept_results: an empty result is kept as a placeholder.
kept_with_placeholders(results) == results

\* Lines 77-79: the results kept, in the order gather returns them.
kept_results(results) == SelectSeq(results, LAMBDA s : s # EMPTY)

(***************************************************************************)
(* Markup Text Collector: _extract_text_content (44-55).                   *)
(***************************************************************************)
\* An item is [type, content, text]: content says whether get_content() and
\* the tag stripper return, text is what soup.get_text() then gives.
is_document(item) == item.type = "document"

\* Some document of the book raises in lines 50-51: nothing catches it.
markup_raises(items) ==
  \E k \in 1..Len(items) : is_document(items[k]) /\ items[k].content = "raise"

\* Faulty variant of markup_parts: the type of the item is not looked at.
markup_parts_all_items(items) ==
  LET docs == SelectSeq(items, LAMBDA it : it.text # EMPTY)
  IN  [k \in 1..Len(docs) |-> docs[k].text]

\* text_parts of lines 46-53 when no item raises.
markup_parts(items) ==
  LET docs == SelectSeq(items, LAMBDA it : is_document(it) /\ it.text # EMPTY)
  IN  [k \in 1..Len(docs) |-> docs[k].text]

_extract_text_content(items) == join(SEP, markup_parts(items))

(***************************************************************************)
(* Extraction Orchestrator: the join of extract_text (26-38).              *)
(***************************************************************************)
\* Faulty variant of all_text_of: both blocks are appended unconditionally.
all_text_unfiltered(text_content, image_text) == <<text_content, image_text>>

\* Lines 26-36: all_text.
all_text_of(text_content, image_text) ==
  (IF text_content # EMPTY THEN <<text_content>> ELSE <<>>)
    \o (IF image_text # EMPTY THEN <<image_text>> ELSE <<>>)

\* Faulty variant of transcript_of: the image block is put first.
transcript_image_first(text_content, image_text) ==
  join(SEP, all_text_of(image_text, text_content))

\* Line 38.
transcript_of(text_content, image_text) ==
  join(SEP, all_text_of(text_content, image_text))

(***************************************************************************)
(* Inputs: what a client uploads, together with the outcome each external  *)
(* collaborator has on it.                                                 *)
(***************************************************************************)
NoExc == [type |-> "none", msg |-> EMPTY]
Exc(type, msg) == [type |-> type, msg |-> msg]
BAD_ZIP == Exc("BadZipFile", <<"n", "o", " ", "z", "i", "p">>)
NOT_EPUB == Exc("EpubException", <<"b", "a", "d">>)
NOT_FOUND == Exc("FileNotFoundError", <<"g", "o", "n", "e">>)
IO_ERROR == Exc("OSError", <<"d", "i", "s", "k">>)
MARKUP_ERROR == Exc("ParserError", <<"e", "m", "p", "t", "y">>)
RENDER_ERROR == Exc("UnicodeEncodeError", <<"u", "t", "f">>)
UNLINK_ERROR == Exc("FileNotFoundError", <<"u", "n", "l", "i", "n", "k">>)

digits == <<"1", "2", "3", "4", "5", "6", "7", "8", "9">>
Digit(k) == <<digits[k]>>

\* One recognised line as the engine gives it: (geometry, (text, confidence)).
Line(text) == PyList(<<PyNum, PyList(<<PyStr(text), PyNum>>)>>)
\* The engine's result for an image showing these lines of text.
Shows(texts) == Returned(PyList(<<PyList([k \in 1..Len(texts) |-> Line(texts[k])])>>))

Entry(name, data, mode, engine) ==
  [name |-> name, data |-> data, mode |-> mode, engine |-> engine]
Other(name) == Entry(name, "other", "none", Raised)
MIMETYPE == Other(<<"m", "i", "m", "e", "t", "y", "p", "e">>)

Doc(text) == [type |-> "document", content |-> "ok", text |-> text]
BadDoc == [type |-> "document", content |-> "raise", text |-> EMPTY]
Style(text) == [type |-> "style", content |-> "ok", text |-> text]

EPUB_NAME == <<"b", ".", "e", "p", "u", "b">>
MAX_SIZE == 50 * 1024 * 1024

Upload(filename, size, copy, render, parse, items, zip, entries) ==
  [present |-> TRUE, filename |-> filename, size |-> size, copy |-> copy,
   render |-> render, parse |-> parse, items |-> items, zip |-> zip,
   entries |-> entries]
NoUpload ==
  [present |-> FALSE, filename |-> EMPTY, size |-> 0, copy |-> "ok",
   render |-> "ok", parse |-> NoExc, items |-> <<>>, zip |-> "ok",
   entries |-> <<>>]
\* A well-formed EPUB of these items and entries, uploaded without incident.
Book(items, entries) == Upload(EPUB_NAME, 1, "ok", "ok", NoExc, items, "ok", entries)

\* The image entry at position k of the pipeline family, by kind.
ImageKinds == {"text", "cmyk", "blank", "garbage", "unreadable", "refused"}
ImageOfKind(kind, k) ==
  LET name == Digit(k) \o DOT_PNG
  IN  CASE kind = "text" -> Entry(name, "image", "RGB", Shows(<<Digit(k)>>))
        [] kind = "cmyk" -> Entry(name, "image", "CMYK", Shows(<<Digit(k), <<"c">>>>))
        [] kind = "blank" -> Entry(name, "image", "RGB", Returned(PyNone))
        [] kind = "garbage" -> Entry(name, "garbage", "none", Raised)
        [] kind = "unreadable" -> Entry(name, "unreadable", "none", Raised)
        [] OTHER -> Entry(name, "image", "RGB", Raised)
ImagesOfKinds(kinds) == [k \in 1..Len(kinds) |-> ImageOfKind(kinds[k], k)]

SeqsUpTo(S, n) == UNION {[1..m -> S] : m \in 0..n}

\* Pipeline family: every run of at most MaxImages image entries of every
\* kind, after a non-image entry, in a book of one document.
PipelineUploads ==
  {Book(<<Doc(<<"d">>)>>, <<MIMETYPE>> \o ImagesOfKinds(kinds)) :
     kinds \in SeqsUpTo(ImageKinds, MaxImages)}

\* Classifier family: every listing of at most MaxNames of these names; the
\* first entry of a listing holds an image, the others do not.
ClassifierNames ==
  { <<"a">> \o DOT_PNG, <<"a", ".", "P", "N", "G">>, <<"a", ".", "J", "p", "G">>,
    <<"a">> \o DOT_JPEG, <<"a">> \o DOT_GIF, <<"a", ".", "B", "M", "P">>,
    <<"a", ".", "t", "x", "t">>, <<"a", ".", "c", "s", "s">>,
    <<"p", "n", "g">>, DOT_PNG, <<"a">> \o DOT_PNG \o <<".", "x">>,
    <<"a", ".", "j", "p">>, <<"a", ".", "x">> \o DOT_BMP, <<"a", ".", "j", "p", "e">> }
NamedEntry(name, k) ==
  IF k = 1 THEN Entry(name, "image", "RGB", Shows(<<<<"x">>>>))
  ELSE Entry(name, "garbage", "none", Raised)
ClassifierUploads ==
  {Book(<<>>, [k \in 1..Len(names) |-> NamedEntry(names[k], k)]) :
     names \in SeqsUpTo(ClassifierNames, MaxNames)}

\* Markup family: every list of at most MaxItems of these items, with and
\* without an image that yields text.
MarkupItems ==
  { Doc(<<"a">>), Doc(<<"b", NL, NL, "c">>), Doc(EMPTY), BadDoc, Style(<<"s">>) }
MarkupUploads ==
  {Book(items, entries) :
     items \in SeqsUpTo(MarkupItems, MaxItems),
     entries \in {<<>>, ImagesOfKinds(<<"text">>), ImagesOfKinds(<<"blank">>)}}

\* Boundary family: file names, sizes, and failures of the file system, of
\* the parser, of the raw container and of the response encoder.
BoundaryNames ==
  { EPUB_NAME, <<"B", ".", "E", "P", "U", "B">>, <<"b", ".", "t", "x", "t">>,
    <<"e", "p", "u", "b">>, EPUB_NAME \o <<".", "z">> }
BoundaryUploads ==
  {Upload(f, size, copy, render, parse, <<Doc(<<"d">>)>>, zip, ImagesOfKinds(<<"text">>)) :
     f \in BoundaryNames, size \in {0, MAX_SIZE, MAX_SIZE + 1},
     copy \in {"ok", "fail"}, render \in {"ok", "fail"},
     parse \in {NoExc, BAD_ZIP, NOT_EPUB, NOT_FOUND}, zip \in {"ok", "bad"}}

\* Engine family: one image, decoded in each colour model, for which the
\* engine gives each of these answers.
EngineModes == {"RGB", "CMYK", "P", "L", "RGBA"}
EngineResults ==
  { Raised,
    Returned(PyNone),
    Returned(PyNum),
    Returned(PyList(<<>>)),
    Returned(PyList(<<PyList(<<>>)>>)),
    Returned(PyList(<<PyNone>>)),
    Shows(<<<<"x">>>>),
    Shows(<<<<"x">>, <<"y", "z">>>>),
    Returned(PyList(<<PyList(<<Line(<<"x">>)>>), PyList(<<Line(<<"y">>)>>)>>)),
    Returned(PyList(<<PyList(<<>>), PyList(<<Line(<<"y">>)>>)>>)),
    Returned(PyList(<<PyList(<<PyNone, Line(<<"x">>), PyList(<<PyNum>>)>>)>>)),
    Returned(PyList(<<PyList(<<Line(<<"x">>), PyList(<<PyNum, PyNone>>)>>)>>)),
    Returned(PyList(<<PyList(<<Line(<<"x">>), PyList(<<PyNum, PyList(<<PyNum, PyNum>>)>>)>>)>>)),
    Returned(PyList(<<PyList(<<Line(<<"x">>), PyNum>>)>>)) }
\* The four answers without text, one image each.
NoTextImages ==
  << Entry(Digit(1) \o DOT_PNG, "image", "RGB", Raised),
     Entry(Digit(2) \o DOT_PNG, "image", "RGB", Returned(PyNone)),
     Entry(Digit(3) \o DOT_PNG, "image", "RGB", Returned(PyList(<<>>))),
     Entry(Digit(4) \o DOT_PNG, "image", "RGB", Returned(PyList(<<PyList(<<>>)>>))) >>
EngineUploads ==
  {Book(<<>>, <<Entry(Digit(1) \o DOT_PNG, "image", m, e)>>) :
     m \in EngineModes, e \in EngineResults}
    \cup {Book(<<>>, NoTextImages)}

\* The inputs of one request served alone.
SingleUploads ==
  PipelineUploads \cup ClassifierUploads \cup MarkupUploads \cup BoundaryUploads
    \cup EngineUploads

\* The inputs of requests served together: an archive of more images than
\* the pool has workers, one whose first image fails, and requests that end
\* early.
ManyImages == Book(<<Doc(<<"d">>)>>, ImagesOfKinds(<<"text", "text", "text", "text", "text">>))
MixedImages == Book(<<>>, ImagesOfKinds(<<"garbage", "cmyk">>))
RefusedByParser == Upload(EPUB_NAME, 1, "ok", "ok", NOT_EPUB, <<>>, "ok", <<>>)
WrongName == Upload(<<"b", ".", "t", "x", "t">>, 1, "ok", "ok", NoExc, <<>>, "ok", <<>>)
ConcurrentUploads == {ManyImages, MixedImages, RefusedByParser, WrongName}

\* The inputs of an archive extracted by every request: one of two images
\* with text, one whose first image fails, and one the parser refuses.
TwoImages == Book(<<Doc(<<"e">>)>>, ImagesOfKinds(<<"text", "text">>))
RepeatedUploads == {TwoImages, MixedImages, RefusedByParser}

\* Image entries over all the uploads of u.
RECURSIVE images_in(_, _)
images_in(u, rs) ==
  IF rs = {} THEN 0
  ELSE LET r == CHOOSE x \in rs : TRUE
       IN  Len(image_files_of(namelist(u[r].entries))) + images_in(u, rs \ {r})

(***************************************************************************)
(* State.                                                                  *)
(***************************************************************************)
VARIABLES
  upload,        \* upload[r]: the input of request r
  pc,            \* pc[r]: where request r's handler stands
  loop,          \* the request whose coroutine runs on the event-loop thread; 0: none
  fs,            \* the paths of the temporary directory that exist
  temp_name,     \* temp_name[r]: temp_file.name of request r; 0: none
  temp_file,     \* temp_file[r]: "none", "exists" or "removed"
  temp_path,     \* temp_path[r]: 'temp_path' in locals()
  unlinks,       \* unlinks[r]: calls of os.unlink so far
  error,         \* error[r]: the exception that reached the handler's except
  text_content,  \* text_content[r]: result of _extract_text_content
  image_files,   \* image_files[r]: the names classified as images
  tasks,         \* tasks[r]: the per-image tasks handed to gather
  zip_file,      \* zip_file[r]: "unopened", "open", "closed" or "failed"
  image_text,    \* image_text[r]: result of _extract_image_text
  extracted,     \* extracted[r]: how extract_text ended
  response,      \* response[r]: what the client receives
  work_queue,    \* jobs submitted to self.executor, not yet taken by a worker
  last_done      \* last_done[r]: the task that completed most recently; 0: none yet

vars ==
  <<upload, pc, loop, fs, temp_name, temp_file, temp_path, unlinks, error, text_content,
    image_files, tasks, zip_file, image_text, extracted, response, work_queue,
    last_done>>

\* Faulty variant of max_workers: a pool one worker larger.
more_workers == 4 + 1

\* Faulty variant of max_workers: a pool without a worker.
no_workers == 4 - 4

\* ThreadPoolExecutor(max_workers=4)
max_workers == 4

DOT_EPUB == <<".", "e", "p", "u", "b">>
ERR_PREFIX ==
  <<"E", "r", "r", "o", "r", " ", "p", "r", "o", "c", "e", "s", "s", "i", "n",
    "g", " ", "E", "P", "U", "B", ":", " ">>
NOT_EPUB_DETAIL ==
  <<"F", "i", "l", "e", " ", "m", "u", "s", "t", " ", "b", "e", " ", "a", "n",
    " ", "E", "P", "U", "B", " ", "f", "i", "l", "e">>
TOO_LARGE_DETAIL ==
  <<"F", "i", "l", "e", " ", "t", "o", "o", " ", "l", "a", "r", "g", "e", " ",
    "(", "m", "a", "x", " ", "5", "0", "M", "B", ")">>
\* The server's own answer to an exception that escapes the handler.
INTERNAL_DETAIL ==
  <<"I", "n", "t", "e", "r", "n", "a", "l", " ", "S", "e", "r", "v", "e", "r",
    " ", "E", "r", "r", "o", "r">>

\* Faulty variant of is_epub_name: the name is not lower-cased.
is_epub_name_case_sensitive(filename) == endswith(filename, DOT_EPUB)

\* Line 23: file.filename.lower().endswith('.epub')
is_epub_name(filename) == endswith(lower(filename), DOT_EPUB)

\* Faulty variant of too_large: a payload of exactly the limit is refused.
too_large_inclusive(size) == size >= MAX_SIZE

\* Line 26: file.size > 50 * 1024 * 1024
too_large(size) == size > MAX_SIZE

\* Faulty variant of error_detail: the failure is not described.
error_detail_generic(e) == INTERNAL_DETAIL

\* Line 47: f"Error processing EPUB: {str(e)}"
error_detail(e) == ERR_PREFIX \o e.msg

NoResponse == [status |-> 0, filename |-> EMPTY, text |-> EMPTY, detail |-> EMPTY]
\* raise HTTPException(status_code, detail)
HTTPException(status, detail) ==
  [status |-> status, filename |-> EMPTY, text |-> EMPTY, detail |-> detail]
\* JSONResponse({"filename": ..., "text": ..., "status": "success"})
Success(filename, text) ==
  [status |-> 200, filename |-> filename, text |-> text, detail |-> EMPTY]

NotExtracted == [state |-> "none", text |-> EMPTY, exc |-> NoExc]
ExtractReturned(text) == [state |-> "returned", text |-> text, exc |-> NoExc]
ExtractRaised(e) == [state |-> "raised", text |-> EMPTY, exc |-> e]

NewTask(name) == [name |-> name, st |-> "new", image |-> NoImage, result |-> EMPTY]

\* The jobs a pool worker is executing.
running ==
  UNION {{<<r, i>> : i \in {k \in 1..Len(tasks[r]) : tasks[r][k].st = "running"}} :
           r \in Requests}

Blank ==
  /\ pc = [r \in Requests |-> "idle"]
  /\ loop = 0
  /\ fs = {}
  /\ temp_name = [r \in Requests |-> 0]
  /\ temp_file = [r \in Requests |-> "none"]
  /\ temp_path = [r \in Requests |-> FALSE]
  /\ unlinks = [r \in Requests |-> 0]
  /\ error = [r \in Requests |-> NoExc]
  /\ text_content = [r \in Requests |-> EMPTY]
  /\ image_files = [r \in Requests |-> <<>>]
  /\ tasks = [r \in Requests |-> <<>>]
  /\ zip_file = [r \in Requests |-> "unopened"]
  /\ image_text = [r \in Requests |-> EMPTY]
  /\ extracted = [r \in Requests |-> NotExtracted]
  /\ response = [r \in Requests |-> NoResponse]
  /\ work_queue = <<>>
  /\ last_done = [r \in Requests |-> 0]

\* Requests served together on the one processor.
Init ==
  /\ upload \in [Requests -> ConcurrentUploads]
  /\ images_in(upload, Requests) <= MaxJobs
  /\ Blank

\* The same upload sent by every request.
InitRepeated ==
  /\ \E u \in RepeatedUploads : upload = [r \in Requests |-> u]
  /\ Blank

\* Requests that share the pool: the first with more images than the pool
\* has workers, the second with images or refused by the parser, any other
\* one rejected for its name.
InitShared ==
  /\ upload \in [Requests -> ConcurrentUploads]
  /\ upload[1] = ManyImages
  /\ upload[2] \in {MixedImages, RefusedByParser}
  /\ \A r \in Requests : r > 2 => upload[r] = WrongName
  /\ Blank

\* One request served alone.
InitSingle ==
  /\ \E u \in SingleUploads : upload = [r \in Requests |-> IF r = 1 THEN u ELSE NoUpload]
  /\ Blank

(***************************************************************************)
(* upload_epub (main.py 17-47).                                            *)
(***************************************************************************)
httpVars == <<fs, temp_name, temp_file, temp_path, unlinks, response>>
procVars == <<text_content, image_files, tasks, zip_file, image_text, extracted>>
poolVars == <<work_queue, last_done>>

\* Lines 23-27: the two rejections, before anything else happens.
Validate(r) ==
  /\ loop = 0
  /\ pc[r] = "idle"
  /\ upload[r].present
  /\ IF ~is_epub_name(upload[r].filename)
       THEN /\ response' = [response EXCEPT ![r] = HTTPException(400, NOT_EPUB_DETAIL)]
            /\ pc' = [pc EXCEPT ![r] = "done"]
            /\ loop' = loop
       ELSE IF too_large(upload[r].size)
       THEN /\ response' = [response EXCEPT ![r] = HTTPException(413, TOO_LARGE_DETAIL)]
            /\ pc' = [pc EXCEPT ![r] = "done"]
            /\ loop' = loop
       ELSE /\ response' = response
            /\ pc' = [pc EXCEPT ![r] = "mktemp"]
            /\ loop' = r
  /\ UNCHANGED <<upload, fs, temp_name, temp_file, temp_path, unlinks, error, procVars,
                 poolVars>>

\* Faulty variant of mkstemp: one fixed name.
mkstemp_fixed_name(paths) == 1

\* tempfile picks a name that no existing path has (the file is created
\* with O_EXCL, another name is tried when the path exists).
mkstemp(paths) == CHOOSE n \in 1..(NumRequests + 1) : n \notin paths /\ \A m \in 1..(n - 1) : m \in paths

\* Line 30: NamedTemporaryFile(delete=False) creates the file.
TempCreate(r) ==
  /\ loop = r
  /\ pc[r] = "mktemp"
  /\ temp_name' = [temp_name EXCEPT ![r] = mkstemp(fs)]
  /\ fs' = fs \cup {mkstemp(fs)}
  /\ temp_file' = [temp_file EXCEPT ![r] = "exists"]
  /\ pc' = [pc EXCEPT ![r] = "copy"]
  /\ UNCHANGED <<upload, loop, temp_path, unlinks, response, error, procVars, poolVars>>

\* Faulty variant of delete_on_close: the file goes when the with block ends.
delete_on_close_default == TRUE

\* Line 30: NamedTemporaryFile(delete=False, ...) keeps the file when the
\* with block closes it.
delete_on_close == FALSE

\* Lines 31-32: the payload is written, the with block ends, and only then
\* is temp_path bound.
TempCopy(r) ==
  /\ loop = r
  /\ pc[r] = "copy"
  /\ IF upload[r].copy = "fail"
       THEN /\ error' = [error EXCEPT ![r] = IO_ERROR]
            /\ pc' = [pc EXCEPT ![r] = "except"]
            /\ temp_path' = temp_path
       ELSE /\ temp_path' = [temp_path EXCEPT ![r] = TRUE]
            /\ pc' = [pc EXCEPT ![r] = "read_epub"]
            /\ error' = error
  /\ IF delete_on_close
       THEN /\ fs' = fs \ {temp_name[r]}
            /\ temp_file' = [temp_file EXCEPT ![r] = "removed"]
       ELSE UNCHANGED <<fs, temp_file>>
  /\ UNCHANGED <<upload, loop, temp_name, unlinks, response, procVars, poolVars>>

\* Line 36.
Unlink(r) ==
  /\ loop = r
  /\ pc[r] = "unlink"
  /\ fs' = fs \ {temp_name[r]}
  /\ temp_file' = [temp_file EXCEPT ![r] = "removed"]
  /\ unlinks' = [unlinks EXCEPT ![r] = @ + 1]
  /\ pc' = [pc EXCEPT ![r] = "respond"]
  /\ UNCHANGED <<upload, loop, temp_name, temp_path, response, error, procVars, poolVars>>

\* Lines 38-42: the response is encoded; an encoding failure is an exception
\* inside the try block.
Respond(r) ==
  /\ loop = r
  /\ pc[r] = "respond"
  /\ IF upload[r].render = "fail"
       THEN /\ error' = [error EXCEPT ![r] = RENDER_ERROR]
            /\ pc' = [pc EXCEPT ![r] = "except"]
            /\ UNCHANGED <<response, loop>>
       ELSE /\ response' = [response EXCEPT ![r] = Success(upload[r].filename, extracted[r].text)]
            /\ pc' = [pc EXCEPT ![r] = "done"]
            /\ loop' = 0
            /\ error' = error
  /\ UNCHANGED <<upload, fs, temp_name, temp_file, temp_path, unlinks, procVars, poolVars>>

\* Lines 44-47: unlink when temp_path is bound, then the 500.  An unlink of a
\* file already removed raises out of the handler.
Except(r) ==
  /\ loop = r
  /\ pc[r] = "except"
  /\ IF temp_path[r]
       THEN /\ unlinks' = [unlinks EXCEPT ![r] = @ + 1]
            /\ IF temp_name[r] \in fs
                 THEN /\ fs' = fs \ {temp_name[r]}
                      /\ temp_file' = [temp_file EXCEPT ![r] = "removed"]
                      /\ response' = [response EXCEPT ![r] =
                                        HTTPException(500, error_detail(error[r]))]
                      /\ error' = error
                 ELSE /\ UNCHANGED <<fs, temp_file>>
                      /\ response' = [response EXCEPT ![r] = HTTPException(500, INTERNAL_DETAIL)]
                      /\ error' = [error EXCEPT ![r] = UNLINK_ERROR]
       ELSE /\ response' = [response EXCEPT ![r] =
                              HTTPException(500, error_detail(error[r]))]
            /\ UNCHANGED <<fs, unlinks, temp_file, error>>
  /\ pc' = [pc EXCEPT ![r] = "done"]
  /\ loop' = 0
  /\ UNCHANGED <<upload, temp_name, temp_path, procVars, poolVars>>

(***************************************************************************)
(* EPUBProcessor.extract_text and the pipeline (epub_processor.py 22-110). *)
(***************************************************************************)
\* Faulty variant of extract_text_except: the failure is raised anew as
\* another exception.
extract_text_wraps(e) == Exc("RuntimeError", e.msg)

\* Lines 40-42: log, then a bare raise.
extract_text_except(e) == e

\* Faulty variant of read_epub_raises: a failure of the parser is passed over.
read_epub_ignored(u) == FALSE

\* Line 25: book = epub.read_epub(epub_path) raises for a file it cannot parse.
read_epub_raises(u) == u.parse # NoExc

\* Line 25: epub.read_epub(epub_path).
ReadEpub(r) ==
  /\ loop = r
  /\ pc[r] = "read_epub"
  /\ IF read_epub_raises(upload[r])
       THEN /\ extracted' = [extracted EXCEPT ![r] = ExtractRaised(extract_text_except(upload[r].parse))]
            /\ error' = [error EXCEPT ![r] = extract_text_except(upload[r].parse)]
            /\ pc' = [pc EXCEPT ![r] = "except"]
       ELSE /\ pc' = [pc EXCEPT ![r] = "markup"]
            /\ UNCHANGED <<extracted, error>>
  /\ UNCHANGED <<upload, loop, httpVars, text_content, image_files, tasks, zip_file,
                 image_text, poolVars>>

\* Line 29: _extract_text_content(book); an exception of a document is not
\* caught before the except of extract_text.
Markup(r) ==
  /\ loop = r
  /\ pc[r] = "markup"
  /\ IF markup_raises(upload[r].items)
       THEN /\ extracted' = [extracted EXCEPT ![r] = ExtractRaised(extract_text_except(MARKUP_ERROR))]
            /\ error' = [error EXCEPT ![r] = extract_text_except(MARKUP_ERROR)]
            /\ pc' = [pc EXCEPT ![r] = "except"]
            /\ text_content' = text_content
       ELSE /\ text_content' = [text_content EXCEPT ![r] = _extract_text_content(upload[r].items)]
            /\ pc' = [pc EXCEPT ![r] = "images"]
            /\ UNCHANGED <<extracted, error>>
  /\ UNCHANGED <<upload, loop, httpVars, image_files, tasks, zip_file, image_text, poolVars>>

\* zipfile.ZipFile(epub_path, 'r') (62): the listing, or an exception when
\* the file is no valid container.
zip_open(u) == IF u.zip # "ok" THEN Raised ELSE Returned(u.entries)

\* Faulty variant of image_text_except: the except re-raises.
image_text_reraises == Raised

\* Lines 83-86: the except at the boundary of _extract_image_text logs and
\* falls through to the return of the join of image_texts, still empty.
image_text_except == Returned(join(SEP, <<>>))

\* Faulty variant of zip_while_gathering: the with block ends, and closes
\* the container, before the tasks are awaited.
zip_closed_at_dispatch == "closed"

\* Lines 62-75: the tasks are created and awaited inside the with block of
\* the container, which stays open meanwhile.
zip_while_gathering == "open"

\* Faulty variant of returns_early: the pipeline goes on to gather no task.
never_returns_early(files) == FALSE

\* Lines 66-67: if not image_files: return ""
returns_early(files) == files = <<>>

\* Lines 59-75 of _extract_image_text: open the container, classify, create
\* one task per image and suspend in gather; or return "" at once (no image
\* entry, or no container).
OpenZip(r) ==
  /\ loop = r
  /\ pc[r] = "images"
  /\ LET z == zip_open(upload[r])
     IN  IF z.raised
           THEN /\ zip_file' = [zip_file EXCEPT ![r] = "failed"]
                /\ IF image_text_except.raised
                     THEN /\ extracted' = [extracted EXCEPT ![r] = ExtractRaised(extract_text_except(BAD_ZIP))]
                          /\ error' = [error EXCEPT ![r] = extract_text_except(BAD_ZIP)]
                          /\ pc' = [pc EXCEPT ![r] = "except"]
                          /\ image_text' = image_text
                     ELSE /\ image_text' = [image_text EXCEPT ![r] = image_text_except.value]
                          /\ pc' = [pc EXCEPT ![r] = "combine"]
                          /\ UNCHANGED <<extracted, error>>
                /\ UNCHANGED <<image_files, tasks, loop>>
           ELSE LET files == image_files_of(namelist(z.value))
                IN  /\ image_files' = [image_files EXCEPT ![r] = files]
                    /\ IF returns_early(files)
                         THEN /\ zip_file' = [zip_file EXCEPT ![r] = "closed"]
                              /\ pc' = [pc EXCEPT ![r] = "combine"]
                              /\ UNCHANGED <<tasks, loop>>
                         ELSE /\ zip_file' = [zip_file EXCEPT ![r] = zip_while_gathering]
                              /\ tasks' = [tasks EXCEPT ![r] = [k \in 1..Len(files) |-> NewTask(files[k])]]
                              /\ pc' = [pc EXCEPT ![r] = "gather"]
                              /\ loop' = 0
                    /\ image_text' = [image_text EXCEPT ![r] = EMPTY]
                    /\ UNCHANGED <<extracted, error>>
  /\ UNCHANGED <<upload, httpVars, text_content, poolVars>>

\* Faulty variant of run_in_executor: _run_ocr is called where the task stands.
run_inline(image) == [submitted |-> FALSE, result |-> _run_ocr(image)]

\* Lines 99-104: loop.run_in_executor(self.executor, self._run_ocr, image)
\* submits the call to the pool and the task waits for its result.
run_in_executor(image) == [submitted |-> TRUE, result |-> EMPTY]

\* Faulty variant of task_failed: the failure of a task cancels the tasks
\* that have not started.
task_failed_cancels(ts, i) ==
  [k \in 1..Len(ts) |->
     IF k = i \/ ts[k].st = "new" THEN [ts[k] EXCEPT !.st = "done", !.result = EMPTY]
     ELSE ts[k]]

\* Lines 108-110: the exception of a task is logged and the task returns "".
task_failed(ts, i) == [ts EXCEPT ![i].st = "done", ![i].result = EMPTY]

\* Lines 90-104 of _process_image_from_zip, run by the event loop for the
\* tasks in the order gather scheduled them: read (which a closed container
\* refuses), decode, convert, and hand the image to the pool; a failure is
\* caught (108-110) and the task is done.
StartTask(r, i) ==
  /\ loop = 0
  /\ pc[r] = "gather"
  /\ i \in 1..Len(tasks[r])
  /\ tasks[r][i].st = "new"
  /\ \A j \in 1..(i - 1) : tasks[r][j].st # "new"
  /\ LET p == IF zip_file[r] # "open" THEN [raised |-> TRUE, value |-> NoImage]
              ELSE prepare_image(upload[r].entries, tasks[r][i].name)
     IN  IF p.raised
           THEN /\ tasks' = [tasks EXCEPT ![r] = task_failed(tasks[r], i)]
                /\ last_done' = [last_done EXCEPT ![r] = i]
                /\ work_queue' = work_queue
           ELSE IF run_in_executor(p.value).submitted
           THEN /\ tasks' = [tasks EXCEPT ![r][i].st = "queued", ![r][i].image = p.value]
                /\ work_queue' = Append(work_queue, <<r, i>>)
                /\ last_done' = last_done
           ELSE /\ tasks' = [tasks EXCEPT ![r][i].st = "done", ![r][i].image = p.value,
                                           ![r][i].result = run_in_executor(p.value).result]
                /\ last_done' = [last_done EXCEPT ![r] = i]
                /\ work_queue' = work_queue
  /\ UNCHANGED <<upload, pc, loop, httpVars, error, text_content, image_files, zip_file,
                 image_text, extracted>>

\* A pool thread takes the oldest job, if one of the max_workers is free.
WorkerStart ==
  /\ work_queue # <<>>
  /\ Cardinality(running) < max_workers
  /\ LET job == Head(work_queue)
     IN  tasks' = [tasks EXCEPT ![job[1]][job[2]].st = "running"]
  /\ work_queue' = Tail(work_queue)
  /\ UNCHANGED <<upload, pc, loop, httpVars, error, text_content, image_files, zip_file,
                 image_text, extracted, last_done>>

\* The worker returns from _run_ocr; the task returns that string (106).
WorkerFinish(r, i) ==
  /\ <<r, i>> \in running
  /\ tasks' = [tasks EXCEPT ![r][i].st = "done", ![r][i].result = _run_ocr(tasks[r][i].image)]
  /\ last_done' = [last_done EXCEPT ![r] = i]
  /\ UNCHANGED <<upload, pc, loop, httpVars, error, text_content, image_files, zip_file,
                 image_text, extracted, work_queue>>

\* Faulty variant of gather: the result of the task that completed last is
\* appended last, as when results are collected on completion.
gather_on_completion(ts, last) ==
  IF last = 0 THEN [k \in 1..Len(ts) |-> ts[k].result]
  ELSE [k \in 1..(Len(ts) - 1) |-> ts[IF k < last THEN k ELSE k + 1].result]
         \o <<ts[last].result>>

\* Line 75: what gather hands back once every task is done, in task order.
gather(ts, last) == [k \in 1..Len(ts) |-> ts[k].result]

\* Faulty variant of gather_done: the wait ends with the first task done.
gather_first_done(ts) == \E k \in 1..Len(ts) : ts[k].st = "done"

\* Line 75: await asyncio.gather(*tasks, ...) resumes when every task is done.
gather_done(ts) == \A k \in 1..Len(ts) : ts[k].st = "done"

\* Lines 75-86: gather returns, the non-empty results are joined, the
\* container is closed.
Gather(r) ==
  /\ loop = 0
  /\ pc[r] = "gather"
  /\ gather_done(tasks[r])
  /\ image_text' = [image_text EXCEPT ![r] = join(SEP, kept_results(gather(tasks[r], last_done[r])))]
  /\ zip_file' = [zip_file EXCEPT ![r] = "closed"]
  /\ pc' = [pc EXCEPT ![r] = "combine"]
  /\ loop' = r
  /\ UNCHANGED <<upload, httpVars, error, text_content, image_files, tasks, extracted, poolVars>>

\* Lines 30-38: the two blocks are joined and extract_text returns.
Combine(r) ==
  /\ loop = r
  /\ pc[r] = "combine"
  /\ extracted' = [extracted EXCEPT ![r] = ExtractReturned(transcript_of(text_content[r], image_text[r]))]
  /\ pc' = [pc EXCEPT ![r] = "unlink"]
  /\ UNCHANGED <<upload, loop, httpVars, error, text_content, image_files, tasks, zip_file,
                 image_text, poolVars>>

Next ==
  \/ \E r \in Requests :
       \/ Validate(r) \/ TempCreate(r) \/ TempCopy(r) \/ ReadEpub(r) \/ Markup(r)
       \/ OpenZip(r) \/ Gather(r) \/ Combine(r) \/ Unlink(r) \/ Respond(r) \/ Except(r)
  \/ \E r \in Requests : \E i \in 1..Len(tasks[r]) : StartTask(r, i)
  \/ \E r \in Requests : \E i \in 1..Len(tasks[r]) : WorkerFinish(r, i)
  \/ WorkerStart

Spec == Init /\ [][Next]_vars
SpecSingle == InitSingle /\ [][Next]_vars
SpecRepeated == InitRepeated /\ [][Next]_vars

\* The steps of the coroutines of request r, which the event loop runs when
\* they are ready, and the return of a worker from an image of r.
LoopStep(r) ==
  \/ Validate(r) \/ TempCreate(r) \/ TempCopy(r) \/ ReadEpub(r) \/ Markup(r)
  \/ OpenZip(r) \/ Gather(r) \/ Combine(r) \/ Unlink(r) \/ Respond(r) \/ Except(r)
  \/ \E i \in 1..Len(tasks[r]) : StartTask(r, i)
WorkerReturn(r) == \E i \in 1..Len(tasks[r]) : WorkerFinish(r, i)

\* The event loop runs every ready coroutine, a free worker takes the oldest
\* job, and every call of the engine ends.
Fairness ==
  /\ \A r \in Requests : WF_vars(LoopStep(r))
  /\ \A r \in Requests : WF_vars(WorkerReturn(r))
  /\ WF_vars(WorkerStart)
SpecFair == InitShared /\ [][Next]_vars /\ Fairness

(***************************************************************************)
(* Properties.                                                             *)
(***************************************************************************)
\* name ends in suffix when letters are compared without regard to case.
EndsInIgnoringCase(name, suffix) ==
  /\ Len(name) >= Len(suffix)
  /\ \A i \in 1..Len(suffix) :
       lower_char(name[Len(name) - Len(suffix) + i]) = lower_char(suffix[i])

\* The name is that of an OCR-eligible image.
IsImageName(name) ==
  \E suffix \in {DOT_PNG, DOT_JPG, DOT_JPEG, DOT_GIF, DOT_BMP} :
    EndsInIgnoringCase(name, suffix)

\* The positions P of the listing that hold an image name, and the task that
\* the image at position k was given (the tasks follow the listing).
ImagePositions(E) == {k \in 1..Len(E) : IsImageName(E[k].name)}
TaskAt(P, k) == Cardinality({j \in P : j <= k})

\* The text each position of the listing contributed: that of its task for
\* an image, none for any other entry.
ListedTexts(r) ==
  LET E == upload[r].entries
      P == ImagePositions(E)
  IN  [k \in 1..Len(E) |-> IF k \in P THEN tasks[r][TaskAt(P, k)].result ELSE EMPTY]

\* _extract_image_text has returned for r after dispatching tasks.
BlockGathered(r) == zip_file[r] = "closed" /\ tasks[r] # <<>>

\* C1: the image block is the texts of the images in the order of the
\* archive's entry listing, whatever the order in which the OCR tasks
\* completed.
C1_ArchiveOrder ==
  \A r \in Requests :
    BlockGathered(r) =>
      image_text[r] = join(SEP, SelectSeq(ListedTexts(r), LAMBDA s : s # EMPTY))

\* C1 happens: an image that is not the last of the listing finished last,
\* and its text stands before that of a later image.
C1_Witness ==
  \E r \in Requests :
    /\ BlockGathered(r)
    /\ last_done[r] \in 1..(Len(tasks[r]) - 1)
    /\ tasks[r][last_done[r]].result # EMPTY
    /\ tasks[r][Len(tasks[r])].result # EMPTY
    /\ segments(image_text[r]) >= 2

\* The entry a read of the name at position k returns, and whether its read,
\* its decoding and its recognition all went through.
EntryRead(E, k) == zip_read(E, E[k].name)
ImageSucceeded(E, k) ==
  /\ ~EntryRead(E, k).raised
  /\ EntryRead(E, k).value.data = "image"
  /\ ~EntryRead(E, k).value.engine.raised
SucceededImages(r) ==
  {k \in ImagePositions(upload[r].entries) : ImageSucceeded(upload[r].entries, k)}
\* The tasks of r that returned some text.
TextTasks(r) == {i \in 1..Len(tasks[r]) : tasks[r][i].result # EMPTY}

\* C2 as stated: the image block has as many segments as images succeeded.
C2_SegmentsEqualSucceeded ==
  \A r \in Requests :
    BlockGathered(r) => segments(image_text[r]) = Cardinality(SucceededImages(r))

\* C2 amended: once the pipeline is entered extract_text does not raise; the
\* image block has as many segments as images returned non-empty text; an
\* image that failed, or in which the engine found no text, contributes
\* nothing.  (A recognised line is one line of text: it holds no line break.)
C2_SegmentsEqualTexts ==
  \A r \in Requests :
    /\ zip_file[r] # "unopened" => extracted[r].state # "raised"
    /\ BlockGathered(r) =>
         LET E == upload[r].entries
             P == ImagePositions(E)
             S == {k \in P : ImageSucceeded(E, k)}
             T == TextTasks(r)
         IN  /\ segments(image_text[r]) = Cardinality(T)
             /\ \A k \in P \ S : tasks[r][TaskAt(P, k)].result = EMPTY
             /\ T \subseteq {TaskAt(P, k) : k \in S}

\* C2 happens: of three images one failed, one held no text and one gave the
\* single segment of the block.
C2_Witness ==
  \E r \in Requests :
    /\ BlockGathered(r)
    /\ Len(tasks[r]) = 3
    /\ Cardinality(SucceededImages(r)) = 2
    /\ Cardinality(TextTasks(r)) = 1
    /\ segments(image_text[r]) = 1
    /\ extracted[r].state = "returned"

\* C3: at most four OCR engine invocations are in progress at any time.
C3_AtMostFourRunning == Cardinality(running) <= 4

\* C3 happens: four invocations of two extractions are in progress while a
\* further image waits for a worker.
C3_Witness ==
  /\ Cardinality(running) = 4
  /\ work_queue # <<>>
  /\ \E a \in running : \E b \in running : a[1] # b[1]

\* read_epub has been called for r and has ended.
ParseEnded(r) == temp_path[r] /\ pc[r] # "read_epub"

\* C4: when read_epub raises, extract_text ends by raising that exception,
\* which is the one the caller's except receives, and no transcript exists.
C4_ParseErrorPropagates ==
  \A r \in Requests :
    (ParseEnded(r) /\ upload[r].parse # NoExc) =>
      /\ extracted[r] = [state |-> "raised", text |-> EMPTY, exc |-> upload[r].parse]
      /\ pc[r] = "except" => error[r] = upload[r].parse
      /\ response[r].status # 200

\* C4 happens: the parser's exception has reached the handler's except.
C4_Witness ==
  \E r \in Requests :
    /\ pc[r] = "except"
    /\ upload[r].parse = NOT_EPUB
    /\ extracted[r].state = "raised"
    /\ error[r] = NOT_EPUB

\* C5: once the archive is parsed, extract_text does not end by raising.
C5_NoRaiseAfterParse ==
  \A r \in Requests :
    (ParseEnded(r) /\ upload[r].parse = NoExc) => extracted[r].state # "raised"

\* C6: the transcript is the markup block, then a blank line, then the image
\* block; a block that is empty is left out together with the separator.
C6_Transcript ==
  \A r \in Requests :
    extracted[r].state = "returned" =>
      LET m == text_content[r]
          i == image_text[r]
          x == extracted[r].text
      IN  /\ (m # EMPTY /\ i # EMPTY) => x = m \o <<NL, NL>> \o i
          /\ (m # EMPTY /\ i = EMPTY) => x = m
          /\ (m = EMPTY /\ i # EMPTY) => x = i
          /\ (m = EMPTY /\ i = EMPTY) => x = EMPTY

\* C6 happens: a transcript of a markup block and a different image block.
C6_Witness ==
  \E r \in Requests :
    /\ extracted[r].state = "returned"
    /\ text_content[r] # EMPTY
    /\ image_text[r] # EMPTY
    /\ text_content[r] # image_text[r]
    /\ response[r].status = 200
    /\ response[r].text = extracted[r].text

\* C7: a request that created a temporary file ends with the file removed.
C7_TempFileRemoved ==
  \A r \in Requests :
    (pc[r] = "done" /\ temp_file[r] # "none") => temp_file[r] = "removed"

\* C8: when the file is no valid ZIP container, _extract_image_text returns
\* the empty string, extract_text does not raise, and no image is read or
\* recognised.
C8_BadContainer ==
  \A r \in Requests :
    (upload[r].zip # "ok" /\ zip_file[r] # "unopened") =>
      /\ zip_file[r] = "failed"
      /\ image_text[r] = EMPTY
      /\ tasks[r] = <<>>
      /\ extracted[r].state # "raised"
      /\ pc[r] # "images"

\* C8 happens: a container that cannot be opened, holding an image entry,
\* and extract_text has returned the markup block.
C8_Witness ==
  \E r \in Requests :
    /\ zip_file[r] = "failed"
    /\ upload[r].entries # <<>>
    /\ extracted[r].state = "returned"
    /\ extracted[r].text = <<"d">>

\* C9: with no image name in the listing the image block is empty, no task
\* exists, and the transcript is the markup block and nothing more.
C9_NoImages ==
  \A r \in Requests :
    (zip_file[r] = "closed" /\ ImagePositions(upload[r].entries) = {}) =>
      /\ image_text[r] = EMPTY
      /\ tasks[r] = <<>>
      /\ extracted[r].state = "returned" => extracted[r].text = text_content[r]

\* C9 happens: a listing of entries none of which is an image, and a
\* transcript that is the document's text.
C9_Witness ==
  \E r \in Requests :
    /\ zip_file[r] = "closed"
    /\ upload[r].entries # <<>>
    /\ ImagePositions(upload[r].entries) = {}
    /\ extracted[r].state = "returned"
    /\ extracted[r].text = <<"d">>

\* C10: the tasks are those of exactly the entries whose name ends, letter
\* case aside, in one of the five suffixes, in listing order, whatever the
\* entries hold.
C10_Classified ==
  \A r \in Requests :
    zip_file[r] \in {"open", "closed"} =>
      LET names == namelist(upload[r].entries)
          images == SelectSeq(names, IsImageName)
      IN  /\ image_files[r] = images
          /\ Len(tasks[r]) = Len(images)
          /\ \A i \in 1..Len(images) : tasks[r][i].name = images[i]

\* C10 happens: an upper-case image name and an image name on an entry that
\* holds no image are both dispatched.
C10_Witness ==
  \E r \in Requests :
    /\ Len(tasks[r]) = 2
    /\ tasks[r][1].name = <<"a", ".", "P", "N", "G">>
    /\ upload[r].entries[2].data = "garbage"
    /\ tasks[r][2].st = "done"

\* The engine's answer for the image task i of r was given, once decoded.
Decoded(r, i) == tasks[r][i].image # NoImage
EngineOf(r, i) == tasks[r][i].image.engine

\* The four answers without text: raised, None, [] and [[], ...].
NoTextAnswer(e) ==
  \/ e.raised
  \/ e.value = PyNone
  \/ e.value = PyList(<<>>)
  \/ e.value.t = "list" /\ Len(e.value.v) > 0 /\ e.value.v[1] = PyList(<<>>)

\* C11: _run_ocr does not raise: every recognition ends with a str, and
\* with the empty str when the engine raises, returns None, returns an
\* empty outer sequence, or one whose first group is empty.
C11_RunOcrNeverRaises ==
  \A r \in Requests :
    /\ zip_file[r] # "unopened" => extracted[r].state # "raised"
    /\ \A i \in 1..Len(tasks[r]) :
         (tasks[r][i].st = "done" /\ Decoded(r, i)) =>
           /\ \A k \in 1..Len(tasks[r][i].result) : tasks[r][i].result[k] \in STRING
           /\ NoTextAnswer(EngineOf(r, i)) => tasks[r][i].result = EMPTY

\* C11 happens: four images, one for each of the four answers, have been
\* recognised as the empty str and the extraction has returned.
C11_Witness ==
  \E r \in Requests :
    /\ upload[r].entries = NoTextImages
    /\ Len(tasks[r]) = 4
    /\ \A i \in 1..4 :
         tasks[r][i].st = "done" /\ Decoded(r, i) /\ tasks[r][i].result = EMPTY
    /\ {EngineOf(r, i) : i \in 1..4} =
         {Raised, Returned(PyNone), Returned(PyList(<<>>)),
          Returned(PyList(<<PyList(<<>>)>>))}
    /\ extracted[r].state = "returned"

\* A line (geometry, (text, confidence)), a group of lines, and a result
\* that is a sequence of groups.
IsLine(l) ==
  /\ l.t = "list" /\ Len(l.v) = 2
  /\ l.v[2].t = "list" /\ Len(l.v[2].v) = 2
  /\ l.v[2].v[1].t = "str"
IsGroup(g) == g.t = "list" /\ \A k \in 1..Len(g.v) : IsLine(g.v[k])
IsGroups(v) == v.t = "list" /\ \A k \in 1..Len(v.v) : IsGroup(v.v[k])

\* The texts of the lines of the groups, in the order returned.
RECURSIVE TextsOfGroups(_)
TextsOfGroups(groups) ==
  IF groups = <<>> THEN <<>>
  ELSE [k \in 1..Len(groups[1].v) |-> groups[1].v[k].v[2].v[1].v]
         \o TextsOfGroups(Tail(groups))

\* C12: for a result that is a sequence of line groups, the recognition
\* gives the texts of the lines of every group, in the order returned, joined
\* with single spaces.
C12_TextOfEveryGroup ==
  \A r \in Requests : \A i \in 1..Len(tasks[r]) :
    ( /\ tasks[r][i].st = "done" /\ Decoded(r, i)
      /\ ~EngineOf(r, i).raised
      /\ IsGroups(EngineOf(r, i).value) ) =>
      tasks[r][i].result = join(SPACE, TextsOfGroups(EngineOf(r, i).value.v))

\* The colour model in which the entry of task i of r is decoded.
DecodedMode(r, i) == zip_read(upload[r].entries, tasks[r][i].name).value.mode

\* C13: an image is handed to the engine in RGB whatever the colour model
\* it was decoded in, and an image decoded in another model gives the text
\* the engine answers for it.
C13_EngineSeesRGB ==
  \A r \in Requests : \A i \in 1..Len(tasks[r]) :
    Decoded(r, i) =>
      /\ tasks[r][i].image.mode = "RGB"
      /\ ( /\ tasks[r][i].st = "done"
           /\ DecodedMode(r, i) # "RGB"
           /\ ~EngineOf(r, i).raised
           /\ IsGroups(EngineOf(r, i).value)
           /\ Len(EngineOf(r, i).value.v) = 1 ) =>
           tasks[r][i].result = join(SPACE, TextsOfGroups(EngineOf(r, i).value.v))

\* C13 happens: a palette image has been recognised and gave its two lines.
C13_Witness ==
  \E r \in Requests : \E i \in 1..Len(tasks[r]) :
    /\ tasks[r][i].st = "done"
    /\ Decoded(r, i)
    /\ DecodedMode(r, i) = "P"
    /\ tasks[r][i].image.mode = "RGB"
    /\ tasks[r][i].result = <<"x", " ", "y", "z">>

\* The texts of the documents of a book that have text, in item order.
RECURSIVE DocumentTexts(_)
DocumentTexts(items) ==
  IF items = <<>> THEN <<>>
  ELSE (IF Head(items).type = "document" /\ Head(items).text # EMPTY
          THEN <<Head(items).text>> ELSE <<>>)
         \o DocumentTexts(Tail(items))

\* _extract_text_content has returned for r.
MarkupReturned(r) == pc[r] = "images" \/ zip_file[r] # "unopened"

\* C14: the markup block is the texts of the documents that have text, in
\* item order, with a blank line between two of them; items of another type
\* and documents without text add nothing, and no item gives the empty str.
C14_DocumentTexts ==
  \A r \in Requests :
    MarkupReturned(r) =>
      LET texts == DocumentTexts(upload[r].items)
      IN  /\ text_content[r] = join(SEP, texts)
          /\ texts = <<>> => text_content[r] = EMPTY
          /\ Len(texts) = 1 => text_content[r] = texts[1]
          /\ Len(texts) = 2 => text_content[r] = texts[1] \o <<NL, NL>> \o texts[2]

\* C14 happens: of a style sheet and a document only the document's text is
\* in the markup block.
C14_Witness ==
  \E r \in Requests :
    /\ MarkupReturned(r)
    /\ Len(upload[r].items) = 2
    /\ upload[r].items[1].type = "style"
    /\ upload[r].items[1].text # EMPTY
    /\ text_content[r] = <<"a">>

\* Request r has been received and its validation has run.
Validated(r) == upload[r].present /\ pc[r] # "idle"
\* Nothing of the pipeline has run for r and no temporary file exists.
PipelineNotRun(r) ==
  /\ temp_file[r] = "none"
  /\ unlinks[r] = 0
  /\ extracted[r] = NotExtracted
  /\ zip_file[r] = "unopened"
  /\ tasks[r] = <<>>

\* C16: a file name that does not end in .epub, letter case aside, is
\* answered 400 with no temporary file and no extraction; a name that does
\* is never answered 400.
C16_RejectsOtherNames ==
  \A r \in Requests :
    Validated(r) =>
      IF EndsInIgnoringCase(upload[r].filename, DOT_EPUB)
        THEN response[r].status # 400
        ELSE /\ response[r].status = 400
             /\ pc[r] = "done"
             /\ PipelineNotRun(r)

\* C16 happens: the name "epub", without the dot, has been refused.
C16_Witness ==
  \E r \in Requests :
    /\ upload[r].filename = <<"e", "p", "u", "b">>
    /\ response[r] = HTTPException(400, NOT_EPUB_DETAIL)
    /\ PipelineNotRun(r)

\* C17: an .epub payload of more than 50 * 1024 * 1024 bytes is answered 413
\* with no temporary file and no extraction; one of exactly that size is not
\* answered 413 and goes on to the temporary file.
C17_RejectsLargePayloads ==
  \A r \in Requests :
    (Validated(r) /\ EndsInIgnoringCase(upload[r].filename, DOT_EPUB)) =>
      IF upload[r].size > 50 * 1024 * 1024
        THEN /\ response[r].status = 413
             /\ pc[r] = "done"
             /\ PipelineNotRun(r)
        ELSE /\ response[r].status # 413
             /\ pc[r] # "mktemp" => temp_file[r] # "none"

\* C17 happens: a payload one byte above the limit has been refused.
C17_Witness ==
  \E r \in Requests :
    /\ upload[r].size = 50 * 1024 * 1024 + 1
    /\ response[r] = HTTPException(413, TOO_LARGE_DETAIL)
    /\ PipelineNotRun(r)

\* C18: when extract_text raises, the answer is 500 with the detail
\* "Error processing EPUB: " followed by the text of the exception, and
\* never a success.
C18_FailureAnswered500 ==
  \A r \in Requests :
    extracted[r].state = "raised" =>
      /\ response[r].status # 200
      /\ pc[r] = "done" =>
           /\ response[r].status = 500
           /\ response[r].detail = ERR_PREFIX \o extracted[r].exc.msg
           /\ response[r].text = EMPTY

\* C18 happens: the parser's failure "bad" has been answered.
C18_Witness ==
  \E r \in Requests :
    /\ pc[r] = "done"
    /\ extracted[r] = ExtractRaised(NOT_EPUB)
    /\ response[r].status = 500
    /\ response[r].detail = ERR_PREFIX \o <<"b", "a", "d">>

\* C15: two extractions of the same archive end alike, with the same
\* transcript, whatever the order in which their OCR tasks were run and
\* completed.
C15_Deterministic ==
  \A r1 \in Requests : \A r2 \in Requests :
    ( /\ upload[r1] = upload[r2]
      /\ extracted[r1].state # "none"
      /\ extracted[r2].state # "none" ) =>
      extracted[r1] = extracted[r2]

\* C15 happens: two extractions of one archive of two images, whose tasks
\* completed in different orders, returned the same transcript.
C15_Witness ==
  \E r1 \in Requests : \E r2 \in Requests :
    /\ r1 # r2
    /\ upload[r1] = upload[r2]
    /\ extracted[r1].state = "returned"
    /\ extracted[r2].state = "returned"
    /\ last_done[r1] = 1
    /\ last_done[r2] = 2
    /\ segments(image_text[r1]) = 2
    /\ extracted[r1].text = extracted[r2].text

\* What the image at position k of the listing E gives when it is read,
\* decoded and recognised on its own.
ImageTextAlone(E, k) ==
  LET p == prepare_image(E, E[k].name)
  IN  IF p.raised THEN EMPTY ELSE _run_ocr(p.value)

\* The transcript of the upload u from u alone; a file that is no container
\* has no listing.
TranscriptAlone(u) ==
  LET E == IF u.zip = "ok" THEN u.entries ELSE <<>>
      P == ImagePositions(E)
      m == join(SEP, DocumentTexts(u.items))
      i == join(SEP, SelectSeq([k \in 1..Len(E) |->
                                  IF k \in P THEN ImageTextAlone(E, k) ELSE EMPTY],
                               LAMBDA s : s # EMPTY))
  IN  IF m # EMPTY /\ i # EMPTY THEN m \o <<NL, NL>> \o i ELSE m \o i

\* The upload is one that the service accepts and can process.
ValidUpload(u) ==
  /\ u.present
  /\ EndsInIgnoringCase(u.filename, DOT_EPUB)
  /\ u.size <= 50 * 1024 * 1024
  /\ u.copy = "ok" /\ u.render = "ok"
  /\ u.parse = NoExc
  /\ \A k \in 1..Len(u.items) : u.items[k].content = "ok"

\* C19: a valid request ends with a success whose text is that of its own
\* upload; two requests of the same upload get the same answer; and the
\* temporary file of a request stays in place, under a name no other request
\* uses, until the request itself removes it.
C19_Isolated ==
  \A r \in Requests :
    /\ (pc[r] = "done" /\ ValidUpload(upload[r])) =>
         response[r] = Success(upload[r].filename, TranscriptAlone(upload[r]))
    /\ \A q \in Requests :
         (pc[r] = "done" /\ pc[q] = "done" /\ upload[r] = upload[q]) =>
           response[r] = response[q]
    /\ temp_file[r] = "exists" =>
         /\ temp_name[r] \in fs
         /\ \A q \in Requests \ {r} :
              temp_file[q] = "exists" => temp_name[q] # temp_name[r]

\* C19 happens: a request that failed and a valid request whose temporary
\* file was created while that of the first was still there; the valid one
\* got the transcript of its own archive.
C19_Witness ==
  \E r \in Requests : \E q \in Requests :
    /\ pc[r] = "done" /\ pc[q] = "done"
    /\ upload[q].parse = NOT_EPUB
    /\ response[q].status = 500
    /\ temp_name[q] = 2
    /\ upload[r] = ManyImages
    /\ response[r].status = 200
    /\ response[r].text =
         <<"d", NL, NL, "1", NL, NL, "2", NL, NL, "3", NL, NL, "4", NL, NL, "5">>

\* The sources of r that contributed text: its documents with text and its
\* images with text.
Contributors(r) == Len(DocumentTexts(upload[r].items)) + Cardinality(TextTasks(r))

\* C20: a transcript holds one blank-line separator less than sources
\* contributed text (none when none did), and neither starts nor ends with
\* a separator nor holds two in a row.
C20_SeparatorsCountSources ==
  \A r \in Requests :
    extracted[r].state = "returned" =>
      LET x == extracted[r].text
      IN  /\ count_sep(x) = (IF Contributors(r) = 0 THEN 0 ELSE Contributors(r) - 1)
          /\ Len(x) >= 2 => SubSeq(x, 1, 2) # SEP /\ SubSeq(x, Len(x) - 1, Len(x)) # SEP
          /\ \A k \in 1..(Len(x) - 3) : SubSeq(x, k, k + 3) # SEP \o SEP

\* The tasks of r that exist before and after a step.
BothTasks(r) == {i \in 1..Len(tasks[r]) : i <= Len(tasks'[r])}

\* C21: a recognition is carried out by a pool worker, never by the event
\* loop: the result of a decoded image appears in a step of a worker that
\* was running it, and while a worker runs an image of r the coroutine of r
\* is suspended, so that the loop is not held for it.
C21_OcrOnPoolOnly ==
  [][\A r \in Requests :
       /\ \A i \in BothTasks(r) :
            (tasks[r][i].st # "done" /\ tasks'[r][i].st = "done"
               /\ tasks'[r][i].image # NoImage) =>
              /\ <<r, i>> \in running
              /\ UNCHANGED <<pc, loop>>
       /\ \A i \in 1..Len(tasks'[r]) :
            tasks'[r][i].st = "running" => (pc'[r] = "gather" /\ loop' # r)]_vars

\* C21 happens: a worker is recognising one image of r while the loop is
\* free and a later image of r has not been read yet.
C21_Witness ==
  \E r \in Requests : \E i \in 1..Len(tasks[r]) : \E j \in 1..Len(tasks[r]) :
    /\ tasks[r][i].st = "running"
    /\ tasks[r][j].st = "new"
    /\ loop = 0

\* The jobs of r that the pool holds, waiting or running.
JobsOf(r) ==
  {i \in 1..Len(tasks[r]) : tasks[r][i].st \in {"queued", "running"}}
    \cup {work_queue[k][2] : k \in {n \in 1..Len(work_queue) : work_queue[n][1] = r}}

\* C22: the image block is joined, and _extract_image_text left, only when
\* every task is done: none is new, queued or running at that time or after.
C22_JoinAfterAllDone ==
  \A r \in Requests :
    (tasks[r] # <<>> /\ (pc[r] # "gather" \/ image_text[r] # EMPTY)) =>
      /\ \A i \in 1..Len(tasks[r]) : tasks[r][i].st = "done"
      /\ JobsOf(r) = {}

\* C22 happens: a block of one text has been joined after three tasks, one
\* of which failed, were all done.
C22_Witness ==
  \E r \in Requests :
    /\ pc[r] = "combine"
    /\ Len(tasks[r]) = 3
    /\ \A i \in 1..3 : tasks[r][i].st = "done"
    /\ tasks[r][1].image = NoImage
    /\ image_text[r] = <<"3">>

\* The position in the listing of the entry of task i.
PositionOfTask(P, i) == CHOOSE k \in P : TaskAt(P, k) = i

\* C23: the result of a task is what its own entry gives, whatever became
\* of the other tasks; an entry that can be decoded is handed to the pool
\* also after another task has failed.
C23_SiblingsUntouched ==
  \A r \in Requests :
    LET E == upload[r].entries
        P == ImagePositions(E)
    IN  \A i \in 1..Len(tasks[r]) :
          LET k == PositionOfTask(P, i)
          IN  /\ tasks[r][i].st = "done" => tasks[r][i].result = ImageTextAlone(E, k)
              /\ (tasks[r][i].st # "new" /\ ~prepare_image(E, E[k].name).raised) =>
                    Decoded(r, i)

\* C23 happens: the first image could not be decoded, the second was refused
\* by the engine, and the third gave its text.
C23_Witness ==
  \E r \in Requests :
    /\ Len(tasks[r]) = 3
    /\ \A i \in 1..3 : tasks[r][i].st = "done"
    /\ tasks[r][1].image = NoImage
    /\ Decoded(r, 2) /\ EngineOf(r, 2).raised
    /\ tasks[r][3].result = <<"3">>
    /\ zip_file[r] = "closed"

\* C24: when the listing holds no image name, _extract_image_text returns
\* the empty str in the step in which it opened the container: it does not
\* suspend, creates no task and submits nothing to the pool.
C24_NoImagesNoPoolWork ==
  [][\A r \in Requests :
       ( /\ pc[r] = "images" /\ pc'[r] # "images"
         /\ zip_file'[r] # "failed"
         /\ ImagePositions(upload[r].entries) = {} ) =>
         /\ pc'[r] = "combine"
         /\ loop' = r
         /\ image_text'[r] = EMPTY
         /\ zip_file'[r] = "closed"
         /\ tasks'[r] = <<>>
         /\ UNCHANGED work_queue
         /\ running' = running]_vars

\* C24 happens: the pipeline has returned for a listing of two entries that
\* are no images, and the request still holds the loop.
C24_Witness ==
  \E r \in Requests :
    /\ pc[r] = "combine"
    /\ loop = r
    /\ Len(upload[r].entries) = 2
    /\ ImagePositions(upload[r].entries) = {}
    /\ zip_file[r] = "closed"
    /\ tasks[r] = <<>>
    /\ work_queue = <<>>

\* The upload of r passed the two checks of the endpoint.
Accepted(r) ==
  /\ Validated(r)
  /\ EndsInIgnoringCase(upload[r].filename, DOT_EPUB)
  /\ upload[r].size <= 50 * 1024 * 1024

\* C25: an accepted request has called os.unlink exactly once when it ends.
C25_UnlinkedExactlyOnce ==
  \A r \in Requests :
    (Accepted(r) /\ pc[r] = "done") => unlinks[r] = 1

\* The texts of the well-formed lines of a group, in order.
RECURSIVE TextsOfWellFormed(_)
TextsOfWellFormed(lines) ==
  IF lines = <<>> THEN <<>>
  ELSE (IF IsLine(lines[1]) THEN <<lines[1].v[2].v[1].v>> ELSE <<>>)
         \o TextsOfWellFormed(Tail(lines))

\* C26: for a result of one group of lines, some of them malformed, the
\* recognition gives the texts of the well-formed lines, in order.
C26_MalformedLineOnly ==
  \A r \in Requests : \A i \in 1..Len(tasks[r]) :
    ( /\ tasks[r][i].st = "done" /\ Decoded(r, i)
      /\ ~EngineOf(r, i).raised
      /\ EngineOf(r, i).value.t = "list"
      /\ Len(EngineOf(r, i).value.v) = 1
      /\ EngineOf(r, i).value.v[1].t = "list" ) =>
      tasks[r][i].result = join(SPACE, TextsOfWellFormed(EngineOf(r, i).value.v[1].v))

\* The tasks of r whose read of the container happens in a step.
Reading(r) == {i \in BothTasks(r) : tasks[r][i].st = "new" /\ tasks'[r][i].st # "new"}

SomeDocumentRaises(u) ==
  \E k \in 1..Len(u.items) : u.items[k].type = "document" /\ u.items[k].content = "raise"

\* C28: the container is opened only after the parse succeeded and the
\* markup block was collected; when the parse fails or the collector raises
\* it is never opened, no entry is classified or read, and the pool gets no
\* job of that extraction.
C28_PipelineAfterMarkup ==
  \A r \in Requests :
    /\ (upload[r].parse # NoExc \/ SomeDocumentRaises(upload[r])) =>
         /\ zip_file[r] = "unopened"
         /\ image_files[r] = <<>>
         /\ tasks[r] = <<>>
         /\ JobsOf(r) = {}
    /\ zip_file[r] # "unopened" =>
         /\ ParseEnded(r)
         /\ pc[r] \notin {"read_epub", "markup"}
         /\ text_content[r] = join(SEP, DocumentTexts(upload[r].items))

\* C28 happens: a request ended after a document failed in the collector,
\* with an image in its archive that was never looked at.
C28_Witness ==
  \E r \in Requests :
    /\ pc[r] = "done"
    /\ extracted[r] = ExtractRaised(MARKUP_ERROR)
    /\ ImagePositions(upload[r].entries) # {}
    /\ zip_file[r] = "unopened"
    /\ tasks[r] = <<>>

\* C29: the temporary file is there as long as the extraction runs; os.unlink
\* is called only after extract_text ended, when no task or pool job of the
\* request is left and the container is closed; a success is answered only
\* after the removal.
C29_FileOutlivesExtraction ==
  \A r \in Requests :
    /\ pc[r] \in {"read_epub", "markup", "images", "gather", "combine"} =>
         /\ temp_name[r] \in fs
         /\ temp_file[r] = "exists"
         /\ unlinks[r] = 0
    /\ (unlinks[r] > 0 \/ temp_file[r] = "removed") =>
         /\ extracted[r].state # "none"
         /\ \A i \in 1..Len(tasks[r]) : tasks[r][i].st = "done"
         /\ JobsOf(r) = {}
         /\ zip_file[r] # "open"
    /\ response[r].status = 200 => temp_file[r] = "removed" /\ unlinks[r] = 1

\* C29 happens: one request has been answered after its file was removed,
\* while the file of another is in place under a worker recognising one of
\* its images.
C29_Witness ==
  \E r \in Requests : \E q \in Requests :
    /\ response[q].status = 200
    /\ temp_file[q] = "removed"
    /\ pc[r] = "gather"
    /\ \E i \in 1..Len(tasks[r]) : tasks[r][i].st = "running"
    /\ temp_name[r] \in fs

\* Request r has ended: extract_text, if it was called, has returned or
\* raised, every task is done and the pool holds no job of r.
Ended(r) ==
  /\ pc[r] = "done"
  /\ temp_path[r] => extracted[r].state \in {"returned", "raised"}
  /\ \A i \in 1..Len(tasks[r]) : tasks[r][i].st = "done"
  /\ JobsOf(r) = {}

\* C30: when the loop runs the ready coroutines, the workers take jobs and
\* every call of the engine ends, every call of extract_text ends, by
\* returning or by raising, with every dispatched image done and no job left
\* in the pool.
C30_ExtractionEnds == <>(\A r \in Requests : Ended(r))

\* C30 happens: an extraction of five images and another one, which shared
\* the pool of four workers, have both returned with every image done.
C30_Witness ==
  \E r \in Requests : \E q \in Requests :
    /\ r # q
    /\ Len(tasks[r]) = 5
    /\ Len(tasks[q]) = 2
    /\ extracted[r].state = "returned"
    /\ extracted[q].state = "returned"
    /\ \A i \in 1..5 : tasks[r][i].st = "done" /\ tasks[r][i].result # EMPTY
    /\ work_queue = <<>>

====
